---------------------------- MODULE Spec2Model ----------------------------
(***************************************************************************)
(* Model of gaudi.algorithms.ea_mu_plus_lambda, the (mu + lambda)          *)
(* evolutionary driver of GAUDI, with its interruption handler and its     *)
(* scheduled checkpoints (src/gaudi/algorithms.py).                        *)
(*                                                                         *)
(* Individuals are natural numbers (object identities).  The individual    *)
(* created at position p of generation g has the identity                  *)
(* n0 + (g-1)*lambda_ + p.  fitness_valid is the set of individuals whose  *)
(* ind.fitness.valid is true.  Probabilities are counted in tenths.        *)
(* Elapsed times are 0 (the two clock readings are equal) or 1 (they       *)
(* differ).                                                                *)
(*                                                                         *)
(* Three parts of the code are also followed on their own, each under a   *)
(* specification of its own: the progress column of the log over long     *)
(* runs (SpecProgress), a call of dump_population on a disk (SpecDump),    *)
(* and a batch of evaluations on parallel workers (SpecBatch).             *)
(***************************************************************************)
EXTENDS Integers, Sequences, FiniteSets, TLC

VARIABLES
    cfg,            \* the arguments of the call (mu, lambda_, cxpb, ...)
    pc,             \* position of the driver
    gen,            \* loop variable gen (0 before the loop)
    population,     \* the list `population`
    population_,    \* the copy `population_`, which the driver returns
    offspring,      \* the list `offspring` of the current generation
    invalid_ind,    \* the list `invalid_ind` of the current generation
    fitness_valid,  \* individuals with ind.fitness.valid
    halloffame,     \* individuals the archive holds
    logbook,        \* the records of `logbook`
    elapsed,        \* the last elapsed time measured (-1: none yet)
    err,            \* the exception raised, "none" when there is none
    failStage,      \* the stage the exception arose in
    answer,         \* the answer given to the confirmation prompt
    prompted,       \* the confirmation prompt was shown
    reverted,       \* individuals on which unexpress() was attempted
    checkpoint,     \* the last checkpoint attempted on disk
    revert_errors,  \* individuals whose unexpress() raised in the revert loop
    endpop,         \* history: `population` as the last completed generation left it
    endgen,         \* history: the last completed generation (-1: none)
    \* the progress column of the log, followed on its own over long runs
    p_ngen,         \* ngen of the run
    p_gen,          \* gen of the last record written (-1: none yet)
    progress,       \* `progress` of the last record, in hundredths of a percent
    previous,       \* `progress` of the record before it (-1: none)
    \* a call of dump_population, followed on its own
    subdir,         \* the argument subdir ("None": not given)
    d_population,   \* the argument population: the fitness values of each individual
    dirs,           \* the directories that exist on the disk
    files,          \* the artifact files that exist on the disk
    manifest,       \* the .gaudi-output file
    basepath,       \* the local basepath
    results,        \* results['GAUDI.results']
    d_i,            \* the loop variable i (the individuals before it are done)
    d_pc,           \* position of dump_population
    d_err,          \* the call that raised out of dump_population
    mkdir_errno,    \* what os.mkdir answered
    raced,          \* another writer made the subdirectory first
    writes,         \* history: the calls ind.write(i, path=basepath) made
    \* one batch of evaluations on parallel workers, followed on its own
    b_genome,       \* the genome of each individual of the batch
    b_values,       \* ind.fitness.values of each individual (<<>>: invalid)
    b_invalid_ind,  \* the list invalid_ind, as positions in the batch
    running,        \* the calls of toolbox.evaluate that have not completed
    computed,       \* what each completed call returned
    completed,      \* history: the calls in the order they completed
    fitnesses,      \* the list toolbox.map returned
    b_pc            \* position of the batch

driverVars == <<cfg, pc, gen, population, population_, offspring, invalid_ind,
                fitness_valid, halloffame, logbook, elapsed, err, failStage,
                answer, prompted, reverted, checkpoint, revert_errors, endpop,
                endgen>>

progVars == <<p_ngen, p_gen, progress, previous>>

dumpVars == <<subdir, d_population, dirs, files, manifest, basepath, results,
              d_i, d_pc, d_err, mkdir_errno, raced, writes>>

batchVars == <<b_genome, b_values, b_invalid_ind, running, computed,
               completed, fitnesses, b_pc>>

(* the variables of the parts that are followed on their own *)
subVars == <<progVars, dumpVars, batchVars>>

vars == <<driverVars, subVars>>

-----------------------------------------------------------------------------
(* Bounds of the model *)

MaxNgen == 2
MaxPop == 2
MaxDump == 2
MaxBatch == 3

(* The values of mu and of lambda_ (0 is the rejected size), and of ngen *)
Mus == 0..2
Lambdas == 0..2
Ngens == (-1)..MaxNgen

(* (cxpb, mutpb) in tenths: reproduction only, all three operators,        *)
(* no reproduction, and a pair whose sum exceeds 1.                        *)
Probs == {<<0, 0>>, <<5, 3>>, <<5, 5>>, <<7, 5>>}

(* cfg.output.check_every: falsy, or a cadence in generations *)
CheckEvery == {0, 1, 2}

(* Elapsed time between two readings of time(): zero or not *)
Elapsed == {0, 1}

(* What an evaluation can raise: an error of toolbox.evaluate, or the     *)
(* KeyboardInterrupt of a user who stops the batch.  Line 148 catches both. *)
ErrKinds == {"Exception", "KeyboardInterrupt"}

(* What the user may type at the prompt, as sequences of characters *)
Answers == { <<"y">>, <<"Y", "e", "S">>, <<>>, <<"n", "o">> }

NoCheckpoint == [gen |-> 0, complete |-> FALSE]

-----------------------------------------------------------------------------
(* Helpers *)

Range(s) == {s[i] : i \in 1..Len(s)}

(* str.lower() on the characters the answers use *)
LowerChar(c) ==
    CASE c = "Y" -> "y"
      [] c = "E" -> "e"
      [] c = "S" -> "s"
      [] c = "N" -> "n"
      [] c = "O" -> "o"
      [] OTHER -> c

Lower(s) == [i \in 1..Len(s) |-> LowerChar(s[i])]

(* mutant: an answer that is not a refusal counts as a confirmation *)
Confirmed_Mut(a) == Lower(a) \notin { <<"n">>, <<"n", "o">> }

(* answer.lower() in ('y', 'yes') *)
Confirmed(a) == Lower(a) \in { <<"y">>, <<"y", "e", "s">> }

(* mutant: the filter keeps the individuals whose fitness is valid *)
InvalidInd_Mut(inds, valid) == SelectSeq(inds, LAMBDA x : x \in valid)

(* mutant: no filter, the whole batch is evaluated again *)
InvalidInd_All(inds, valid) == inds

(* [ind for ind in inds if not ind.fitness.valid] *)
InvalidInd(inds, valid) == SelectSeq(inds, LAMBDA x : x \notin valid)

(* identity of the individual created at position p of generation g *)
NewId(c, g, p) == c.n0 + (g - 1) * c.lambda_ + p


(* cxpb + mutpb <= 1, mu >= 1, lambda_ >= 1, ngen >= 0 *)
ValidConfig(c) ==
    /\ c.cxpb + c.mutpb <= 10
    /\ c.mu >= 1
    /\ c.lambda_ >= 1
    /\ c.ngen >= 0

-----------------------------------------------------------------------------
(* deap.algorithms.varOr, as called at line 118.  Each offspring is the    *)
(* work of a crossover (op_choice < cxpb) or a mutation (op_choice < cxpb  *)
(* + mutpb), both of which clone their parents and delete the fitness of   *)
(* the clone, or of a reproduction, which appends a member of the          *)
(* population itself, not a copy.                                          *)

CanCrossover(c, pop) == c.cxpb > 0 /\ Len(pop) >= 2
CanMutate(c, pop) == c.mutpb > 0 /\ c.cxpb < 10 /\ Len(pop) >= 1
CanReproduce(c, pop) == c.cxpb + c.mutpb < 10 /\ Len(pop) >= 1

(* the offspring varOr can put at position p of generation g *)
OffspringAt(c, pop, g, p) ==
    (IF CanCrossover(c, pop) \/ CanMutate(c, pop) THEN {NewId(c, g, p)} ELSE {})
    \cup (IF CanReproduce(c, pop) THEN Range(pop) ELSE {})

VarOr(c, pop, g) ==
    {o \in [1..c.lambda_ -> Range(pop) \cup {NewId(c, g, p) : p \in 1..c.lambda_}] :
        \A p \in 1..c.lambda_ : o[p] \in OffspringAt(c, pop, g, p)}

(* toolbox.select(pool, k) of a toolbox whose select returns k individuals *)
(* of the pool: any k consecutive candidates, taken cyclically when the    *)
(* pool is shorter than k.                                                 *)
Select(pool, k) ==
    IF k <= 0 THEN {<<>>}
    ELSE IF Len(pool) = 0 THEN {}
    ELSE IF Len(pool) < k
         THEN {[i \in 1..k |-> pool[((i - 1) % Len(pool)) + 1]]}
         ELSE {SubSeq(pool, s, s + k - 1) : s \in 1..(Len(pool) - k + 1)}

(* halloffame.update(inds): the archive takes in the individuals *)
HofUpdate(hof, inds) == hof \cup Range(inds)

(* mutant: the `not` is missing, the checkpoint is due in the generations  *)
(* that are not multiples of the cadence                                   *)
CheckpointDue_Mut(c, hof, g) ==
    /\ c.hof
    /\ hof # {}
    /\ c.check_every # 0
    /\ g % c.check_every # 0

(* halloffame and cfg.output.check_every and not gen % cfg.output.check_every *)
CheckpointDue(c, hof, g) ==
    /\ c.hof
    /\ hof # {}
    /\ c.check_every # 0
    /\ g % c.check_every = 0

(* '{:.2f}%'.format(100*(g+1)/(ngen+1)), in hundredths of a percent: the  *)
(* quotient (a true division) is rounded to two decimals.  A quotient      *)
(* halfway between two hundredths goes to either, as the rounding of the   *)
(* binary fraction next to it decides.                                     *)
Progress(g, ngen) ==
    LET q == (10000 * (g + 1)) \div (ngen + 1)
        r == (10000 * (g + 1)) % (ngen + 1)
    IN  IF 2 * r < ngen + 1 THEN {q}
        ELSE IF 2 * r > ngen + 1 THEN {q + 1}
        ELSE {q, q + 1}

(* dump_population(halloffame, cfg, subdir='check<gen>') as the driver    *)
(* sees it: the checkpoint of generation g is complete on disk unless a    *)
(* write (ind.write of an artifact, or the manifest) raised.               *)
DumpPopulation(g, raised) == [gen |-> g, complete |-> ~raised]

-----------------------------------------------------------------------------
(* The driver *)

(* the parts followed on their own, at rest *)
ProgIdle ==
    /\ p_ngen = 0
    /\ p_gen = -1
    /\ progress = -1
    /\ previous = -1

NoManifest == [path |-> <<>>, results |-> <<>>, written |-> FALSE]

DumpIdle ==
    /\ subdir = "None"
    /\ d_population = <<>>
    /\ dirs = {}
    /\ files = {}
    /\ manifest = NoManifest
    /\ basepath = <<>>
    /\ results = <<>>
    /\ d_i = 0
    /\ d_pc = "idle"
    /\ d_err = "none"
    /\ mkdir_errno = "none"
    /\ raced = FALSE
    /\ writes = <<>>

BatchIdle ==
    /\ b_genome = <<>>
    /\ b_values = <<>>
    /\ b_invalid_ind = <<>>
    /\ running = {}
    /\ computed = <<>>
    /\ completed = <<>>
    /\ fitnesses = <<>>
    /\ b_pc = "idle"

Configs ==
    [mu : Mus, lambda_ : Lambdas, ngen : Ngens,
     cxpb : {p[1] : p \in Probs}, mutpb : {p[2] : p \in Probs},
     check_every : CheckEvery, hof : BOOLEAN,
     n0 : 1..MaxPop, nvalid : 0..MaxPop]

Init ==
    /\ cfg \in {c \in Configs : <<c.cxpb, c.mutpb>> \in Probs /\ c.nvalid <= c.n0}
    /\ pc = "eval0"
    /\ gen = 0
    /\ population = [i \in 1..cfg.n0 |-> i]
    /\ population_ = population
    /\ offspring = <<>>
    /\ invalid_ind = <<>>
    /\ fitness_valid = 1..cfg.nvalid
    /\ halloffame = {}
    /\ logbook = <<>>
    /\ elapsed = -1
    /\ err = "none"
    /\ failStage = "none"
    /\ answer = <<>>
    /\ prompted = FALSE
    /\ reverted = {}
    /\ checkpoint = NoCheckpoint
    /\ revert_errors = {}
    /\ endpop = <<>>
    /\ endgen = -1
    /\ ProgIdle
    /\ DumpIdle
    /\ BatchIdle

(* mutant: the try does not cover the first generation of the loop *)
Raise_Mut(kind, stage) ==
    /\ err' = kind
    /\ failStage' = stage
    /\ pc' = IF gen <= 1 THEN "crashed" ELSE "except"

(* An exception leaves the function before the loop (lines 85-111 are not  *)
(* inside a try) or, inside the loop body, reaches the except clause.      *)
Raise(kind, stage) ==
    /\ err' = kind
    /\ failStage' = stage
    /\ pc' = IF gen = 0 THEN "crashed" ELSE "except"

(* lines 91-94: evaluate the initial individuals with an invalid fitness *)
Evaluate0 ==
    /\ pc = "eval0"
    /\ \/ /\ invalid_ind' = InvalidInd(population, fitness_valid)
          /\ fitness_valid' = fitness_valid \cup Range(invalid_ind')
          /\ pc' = "hof0"
          /\ UNCHANGED <<err, failStage>>
       \/ /\ \E k \in ErrKinds : Raise(k, "evaluation")
          /\ invalid_ind' = InvalidInd(population, fitness_valid)
          /\ UNCHANGED fitness_valid
    /\ UNCHANGED <<cfg, gen, population, population_, offspring, halloffame,
                   logbook, elapsed, answer, prompted, reverted, checkpoint,
                   endpop, endgen, revert_errors>>
    /\ UNCHANGED subVars

(* lines 96-97 *)
Hof0 ==
    /\ pc = "hof0"
    /\ \/ /\ halloffame' = IF cfg.hof THEN HofUpdate(halloffame, population)
                                      ELSE halloffame
          /\ pc' = "record0"
          /\ UNCHANGED <<err, failStage>>
       \/ /\ cfg.hof
          /\ Raise("Exception", "archive")
          /\ UNCHANGED halloffame
    /\ UNCHANGED <<cfg, gen, population, population_, offspring, invalid_ind,
                   fitness_valid, logbook, elapsed, answer, prompted, reverted,
                   checkpoint, endpop, endgen, revert_errors>>
    /\ UNCHANGED subVars

(* lines 99-111: the record of generation 0.  stats.compile comes first; *)
(* then nevals / (t1-t0) divides by the elapsed time, remaining_evals /    *)
(* speed by the speed, and 100/(ngen+1) by ngen+1.  The record is written  *)
(* at line 108; lines 110-111 then log it, where an interrupt may arrive.  *)
Record0 ==
    /\ pc = "record0"
    /\ \/ /\ Raise("Exception", "statistics")
          /\ UNCHANGED <<logbook, elapsed, endpop, endgen>>
       \/ \E dt \in Elapsed :
            /\ elapsed' = dt
            /\ IF dt = 0 \/ Len(invalid_ind) = 0 \/ cfg.ngen + 1 = 0
               THEN /\ Raise("ZeroDivisionError", "statistics")
                    /\ UNCHANGED <<logbook, endpop, endgen>>
               ELSE /\ \E p \in Progress(0, cfg.ngen) :
                         logbook' = Append(logbook,
                                       [gen |-> 0, progress |-> p,
                                        nevals |-> Len(invalid_ind)])
                    /\ \/ /\ endpop' = population
                          /\ endgen' = 0
                          /\ pc' = "loop"
                          /\ UNCHANGED <<err, failStage>>
                       \/ /\ Raise("KeyboardInterrupt", "report")
                          /\ UNCHANGED <<endpop, endgen>>
    /\ UNCHANGED <<cfg, gen, population, population_, offspring, invalid_ind,
                   fitness_valid, halloffame, answer, prompted, reverted,
                   checkpoint, revert_errors>>
    /\ UNCHANGED subVars

(* lines 114-118: the loop takes its next generation and varOr makes the   *)
(* offspring.  varOr asserts cxpb + mutpb <= 1.0 and raises when an        *)
(* operator it picks cannot be applied to the population.                  *)
Vary ==
    /\ pc = "loop"
    /\ gen < cfg.ngen
    /\ gen' = gen + 1
    /\ \/ /\ cfg.cxpb + cfg.mutpb <= 10
          /\ \E o \in VarOr(cfg, population, gen + 1) :
                offspring' = o
          /\ pc' = "eval"
          /\ UNCHANGED <<err, failStage>>
       \/ /\ cfg.cxpb + cfg.mutpb > 10
          /\ err' = "AssertionError"
          /\ failStage' = "variation"
          /\ pc' = "except"
          /\ UNCHANGED offspring
       \/ /\ cfg.cxpb + cfg.mutpb <= 10
          /\ err' = "Exception"
          /\ failStage' = "variation"
          /\ pc' = "except"
          /\ UNCHANGED offspring
    /\ UNCHANGED <<cfg, population, population_, invalid_ind, fitness_valid,
                   halloffame, logbook, elapsed, answer, prompted, reverted,
                   checkpoint, endpop, endgen, revert_errors>>
    /\ UNCHANGED subVars

(* lines 121-125: evaluate the offspring with an invalid fitness *)
Evaluate ==
    /\ pc = "eval"
    /\ invalid_ind' = InvalidInd(offspring, fitness_valid)
    /\ \/ /\ fitness_valid' = fitness_valid \cup Range(invalid_ind')
          /\ pc' = "hof"
          /\ UNCHANGED <<err, failStage>>
       \/ /\ \E k \in ErrKinds : Raise(k, "evaluation")
          /\ UNCHANGED fitness_valid
    /\ UNCHANGED <<cfg, gen, population, population_, offspring, halloffame,
                   logbook, elapsed, answer, prompted, reverted, checkpoint,
                   endpop, endgen, revert_errors>>
    /\ UNCHANGED subVars

(* mutant: the archive is updated with the population, as at line 97 *)
Hof_Mut ==
    /\ pc = "hof"
    /\ \/ /\ halloffame' = IF cfg.hof THEN HofUpdate(halloffame, population)
                                      ELSE halloffame
          /\ pc' = "select"
          /\ UNCHANGED <<err, failStage>>
       \/ /\ cfg.hof
          /\ Raise("Exception", "archive")
          /\ UNCHANGED halloffame
    /\ UNCHANGED <<cfg, gen, population, population_, offspring, invalid_ind,
                   fitness_valid, logbook, elapsed, answer, prompted, reverted,
                   checkpoint, endpop, endgen, revert_errors>>
    /\ UNCHANGED subVars

(* lines 128-129 *)
Hof ==
    /\ pc = "hof"
    /\ \/ /\ halloffame' = IF cfg.hof THEN HofUpdate(halloffame, offspring)
                                      ELSE halloffame
          /\ pc' = "select"
          /\ UNCHANGED <<err, failStage>>
       \/ /\ cfg.hof
          /\ Raise("Exception", "archive")
          /\ UNCHANGED halloffame
    /\ UNCHANGED <<cfg, gen, population, population_, offspring, invalid_ind,
                   fitness_valid, logbook, elapsed, answer, prompted, reverted,
                   checkpoint, endpop, endgen, revert_errors>>
    /\ UNCHANGED subVars

(* mutant: lambda_ individuals are selected instead of mu *)
SelectNext_Mut ==
    /\ pc = "select"
    /\ \/ /\ \E s \in Select(population \o offspring, cfg.lambda_) :
                population' = s
          /\ pc' = "record"
          /\ UNCHANGED <<err, failStage>>
       \/ /\ Raise("Exception", "selection")
          /\ UNCHANGED population
    /\ UNCHANGED <<cfg, gen, population_, offspring, invalid_ind,
                   fitness_valid, halloffame, logbook, elapsed, answer,
                   prompted, reverted, checkpoint, endpop, endgen, revert_errors>>
    /\ UNCHANGED subVars

(* line 132: population[:] = toolbox.select(population + offspring, mu) *)
SelectNext ==
    /\ pc = "select"
    /\ \/ /\ \E s \in Select(population \o offspring, cfg.mu) :
                population' = s
          /\ pc' = "record"
          /\ UNCHANGED <<err, failStage>>
       \/ /\ Raise("Exception", "selection")
          /\ UNCHANGED population
    /\ UNCHANGED <<cfg, gen, population_, offspring, invalid_ind,
                   fitness_valid, halloffame, logbook, elapsed, answer,
                   prompted, reverted, checkpoint, endpop, endgen, revert_errors>>
    /\ UNCHANGED subVars

(* lines 135-147: the record of generation gen.  nevals / (t2-t1) divides  *)
(* by the elapsed time and remaining_evals / speed by the speed, which is  *)
(* zero when nothing was evaluated; stats.compile comes after both.  The   *)
(* record is written at lines 144-145; lines 146-147 then log it, still    *)
(* inside the try, where an interrupt may arrive: the body of the          *)
(* generation is complete only when they are done.                         *)
Record ==
    /\ pc = "record"
    /\ \E dt \in Elapsed :
        /\ elapsed' = dt
        /\ IF dt = 0 \/ Len(invalid_ind) = 0
           THEN /\ Raise("ZeroDivisionError", "statistics")
                /\ UNCHANGED <<logbook, endpop, endgen>>
           ELSE \/ /\ \E p \in Progress(gen, cfg.ngen) :
                         logbook' = Append(logbook,
                                       [gen |-> gen, progress |-> p,
                                        nevals |-> Len(invalid_ind)])
                   /\ \/ /\ endpop' = population
                         /\ endgen' = gen
                         /\ pc' = "else"
                         /\ UNCHANGED <<err, failStage>>
                      \/ /\ Raise("KeyboardInterrupt", "report")
                         /\ UNCHANGED <<endpop, endgen>>
                \/ /\ Raise("Exception", "statistics")
                   /\ UNCHANGED <<logbook, endpop, endgen>>
    /\ UNCHANGED <<cfg, gen, population, population_, offspring, invalid_ind,
                   fitness_valid, halloffame, answer, prompted, reverted,
                   checkpoint, revert_errors>>
    /\ UNCHANGED subVars

(* mutant: the else clause does not take the copy of the population *)
Else_NoSnapshot ==
    /\ pc = "else"
    /\ IF CheckpointDue(cfg, halloffame, gen)
       THEN \/ \E raised \in BOOLEAN :
                 /\ checkpoint' = DumpPopulation(gen, raised)
                 /\ pc' = "loop"
                 /\ UNCHANGED <<err, failStage>>
            \/ /\ checkpoint' = DumpPopulation(gen, TRUE)
               /\ err' = "KeyboardInterrupt"
               /\ failStage' = "checkpoint"
               /\ pc' = "crashed"
       ELSE /\ pc' = "loop"
            /\ UNCHANGED <<checkpoint, err, failStage>>
    /\ UNCHANGED <<cfg, gen, population, population_, offspring, invalid_ind,
                   fitness_valid, halloffame, logbook, elapsed, answer,
                   prompted, reverted, endpop, endgen, revert_errors>>
    /\ UNCHANGED subVars

(* mutant: dump_population is called without the inner try, so that an     *)
(* Exception of a write leaves the function                                *)
Else_NoTry ==
    /\ pc = "else"
    /\ population_' = population
    /\ IF CheckpointDue(cfg, halloffame, gen)
       THEN \/ /\ checkpoint' = DumpPopulation(gen, FALSE)
               /\ pc' = "loop"
               /\ UNCHANGED <<err, failStage>>
            \/ /\ checkpoint' = DumpPopulation(gen, TRUE)
               /\ err' = "Exception"
               /\ failStage' = "checkpoint"
               /\ pc' = "crashed"
       ELSE /\ pc' = "loop"
            /\ UNCHANGED <<checkpoint, err, failStage>>
    /\ UNCHANGED <<cfg, gen, population, offspring, invalid_ind,
                   fitness_valid, halloffame, logbook, elapsed, answer,
                   prompted, reverted, endpop, endgen, revert_errors>>
    /\ UNCHANGED subVars

(* lines 159-167: the else clause of the try.  The copy of the population  *)
(* is taken, then the checkpoint, if one is due, is written; an Exception  *)
(* of dump_population is caught and logged, a KeyboardInterrupt is not     *)
(* and, raised outside the try, leaves the function.                       *)
Else ==
    /\ pc = "else"
    /\ population_' = population
    /\ IF CheckpointDue(cfg, halloffame, gen)
       THEN \/ \E raised \in BOOLEAN :
                 /\ checkpoint' = DumpPopulation(gen, raised)
                 /\ pc' = "loop"
                 /\ UNCHANGED <<err, failStage>>
            \/ /\ checkpoint' = DumpPopulation(gen, TRUE)
               /\ err' = "KeyboardInterrupt"
               /\ failStage' = "checkpoint"
               /\ pc' = "crashed"
       ELSE /\ pc' = "loop"
            /\ UNCHANGED <<checkpoint, err, failStage>>
    /\ UNCHANGED <<cfg, gen, population, offspring, invalid_ind,
                   fitness_valid, halloffame, logbook, elapsed, answer,
                   prompted, reverted, endpop, endgen, revert_errors>>
    /\ UNCHANGED subVars

(* mutant: the break of line 158 is missing, the loop goes on after the    *)
(* revert                                                                  *)
Except_NoBreak ==
    /\ pc = "except"
    /\ prompted' = TRUE
    /\ \E a \in Answers :
        /\ answer' = a
        /\ IF Confirmed(a)
           THEN /\ \E bad \in SUBSET Range(population) :
                      revert_errors' = bad
                /\ reverted' = reverted \cup Range(population)
                /\ pc' = "loop"
           ELSE /\ pc' = "exited"
                /\ UNCHANGED <<reverted, revert_errors>>
    /\ UNCHANGED <<cfg, gen, population, population_, offspring, invalid_ind,
                   fitness_valid, halloffame, logbook, elapsed, err, failStage,
                   checkpoint, endpop, endgen>>
    /\ UNCHANGED subVars

(* mutant: unexpress() is called without the inner try, so that its error  *)
(* leaves the function at the first individual that raises                 *)
Except_NoTry ==
    /\ pc = "except"
    /\ prompted' = TRUE
    /\ \E a \in Answers :
        /\ answer' = a
        /\ IF Confirmed(a)
           THEN \E bad \in SUBSET Range(population) :
                    /\ revert_errors' = bad
                    /\ IF bad = {}
                       THEN /\ reverted' = reverted \cup Range(population)
                            /\ pc' = "returned"
                       ELSE LET first == CHOOSE i \in 1..Len(population) :
                                    /\ population[i] \in bad
                                    /\ \A j \in 1..(i - 1) : population[j] \notin bad
                            IN  /\ reverted' = reverted
                                        \cup {population[j] : j \in 1..first}
                                /\ pc' = "crashed"
           ELSE /\ pc' = "exited"
                /\ UNCHANGED <<reverted, revert_errors>>
    /\ UNCHANGED <<cfg, gen, population, population_, offspring, invalid_ind,
                   fitness_valid, halloffame, logbook, elapsed, err, failStage,
                   checkpoint, endpop, endgen>>
    /\ UNCHANGED subVars

(* lines 148-158: the except clause.  The error is logged and the prompt   *)
(* shown; any answer but y or yes ends the process with sys.exit, and      *)
(* otherwise unexpress() is called on each individual of `population`,     *)
(* the loop is left and line 168 returns population_ and logbook.  An      *)
(* unexpress() may raise on any of the individuals (bad: those on which it *)
(* does); lines 155-158 catch the Exception and go on to the next one.     *)
Except ==
    /\ pc = "except"
    /\ prompted' = TRUE
    /\ \E a \in Answers :
        /\ answer' = a
        /\ IF Confirmed(a)
           THEN /\ \E bad \in SUBSET Range(population) :
                      revert_errors' = bad
                /\ reverted' = reverted \cup Range(population)
                /\ pc' = "returned"
           ELSE /\ pc' = "exited"
                /\ UNCHANGED <<reverted, revert_errors>>
    /\ UNCHANGED <<cfg, gen, population, population_, offspring, invalid_ind,
                   fitness_valid, halloffame, logbook, elapsed, err, failStage,
                   checkpoint, endpop, endgen>>
    /\ UNCHANGED subVars

(* lines 114 and 168: the loop is over; return population_, logbook *)
Return ==
    /\ pc = "loop"
    /\ gen >= cfg.ngen
    /\ pc' = "returned"
    /\ UNCHANGED <<cfg, gen, population, population_, offspring, invalid_ind,
                   fitness_valid, halloffame, logbook, elapsed, err, failStage,
                   answer, prompted, reverted, checkpoint, endpop, endgen, revert_errors>>
    /\ UNCHANGED subVars

Next ==
    \/ Evaluate0
    \/ Hof0
    \/ Record0
    \/ Vary
    \/ Evaluate
    \/ Hof
    \/ SelectNext
    \/ Record
    \/ Else
    \/ Except
    \/ Return

Spec == Init /\ [][Next]_vars

TypeOK ==
    /\ pc \in {"eval0", "hof0", "record0", "loop", "eval", "hof", "select",
               "record", "else", "except", "returned", "exited",
               "crashed"}
    /\ gen \in 0..MaxNgen
    /\ checkpoint \in [gen : 0..MaxNgen, complete : BOOLEAN]
    /\ err \in ErrKinds \cup {"none", "ZeroDivisionError", "AssertionError"}

-----------------------------------------------------------------------------
(* The progress column over a long run.  Lines 107 and 143 compute the     *)
(* progress of each record from gen and ngen alone; the records of a run   *)
(* of ngen generations are followed here without the rest of the body,     *)
(* for the short runs of the driver above and for runs of thousands of     *)
(* generations.                                                            *)

LongRuns == {9999, 39999}

ProgressNgens == (0..MaxNgen) \cup LongRuns

(* the driver is not running *)
DriverIdle ==
    /\ cfg = [mu |-> 1, lambda_ |-> 1, ngen |-> 0, cxpb |-> 0, mutpb |-> 0,
              check_every |-> 0, hof |-> FALSE, n0 |-> 1, nvalid |-> 0]
    /\ pc = "idle"
    /\ gen = 0
    /\ population = <<>>
    /\ population_ = <<>>
    /\ offspring = <<>>
    /\ invalid_ind = <<>>
    /\ fitness_valid = {}
    /\ halloffame = {}
    /\ logbook = <<>>
    /\ elapsed = -1
    /\ err = "none"
    /\ failStage = "none"
    /\ answer = <<>>
    /\ prompted = FALSE
    /\ reverted = {}
    /\ checkpoint = NoCheckpoint
    /\ revert_errors = {}
    /\ endpop = <<>>
    /\ endgen = -1

InitProgress ==
    /\ DriverIdle
    /\ p_ngen \in ProgressNgens
    /\ p_gen = -1
    /\ progress = -1
    /\ previous = -1
    /\ DumpIdle
    /\ BatchIdle

(* mutant: the quotient is an integer division, its fraction lost *)
RecordProgress_Mut ==
    /\ p_gen < p_ngen
    /\ p_gen' = p_gen + 1
    /\ progress' = 100 * ((100 * (p_gen' + 1)) \div (p_ngen + 1))
    /\ previous' = progress
    /\ UNCHANGED <<p_ngen, driverVars, dumpVars, batchVars>>

(* lines 107-108 (gen = 0) and 143-144: the progress of the next record *)
RecordProgress ==
    /\ p_gen < p_ngen
    /\ p_gen' = p_gen + 1
    /\ progress' \in Progress(p_gen', p_ngen)
    /\ previous' = progress
    /\ UNCHANGED <<p_ngen, driverVars, dumpVars, batchVars>>

NextProgress == RecordProgress

SpecProgress == InitProgress /\ [][NextProgress]_vars

-----------------------------------------------------------------------------
(* dump_population(population, cfg, subdir), lines 170-188, step by step   *)
(* on a disk that holds directories and files.  A directory is the         *)
(* sequence of its components; a file is a directory and a base name.      *)

(* cfg.output.path *)
OutputPath == <<"out">>

(* the subdir argument: None, or the name of a checkpoint *)
Subdirs == {"None", "check1"}

(* ind.fitness.values of the individuals handed over *)
FitnessValues == {<<1>>, <<2>>}

(* os.path.join(path, name) of a directory *)
Join(path, name) == Append(path, name)

(* the directory a directory is made in *)
Parent(path) == SubSeq(path, 1, Len(path) - 1)

(* os.path.basename(filename) *)
Basename(filename) == filename.base

(* ind.write(i, path=basepath): the individual writes its artifact into    *)
(* the directory, under a name made of the position i, and returns the     *)
(* file name.                                                              *)
Write(i, path) == [dir |-> path, base |-> i]

(* map(float, ind.fitness.values): the same numbers, as a list of floats *)
Floats(values) == [k \in 1..Len(values) |-> values[k]]

(* mutant: every individual is written under position 0 *)
Enumerate_Mut(pop) == [k \in 1..Len(pop) |-> <<0, pop[k]>>]

(* enumerate(population): each individual with its position, from 0 *)
Enumerate(pop) == [k \in 1..Len(pop) |-> <<k - 1, pop[k]>>]

(* d[k] = v of a dictionary *)
DictPut(d, k, v) == [x \in (DOMAIN d) \cup {k} |-> IF x = k THEN v ELSE d[x]]

InitDump ==
    /\ DriverIdle
    /\ ProgIdle
    /\ BatchIdle
    /\ subdir \in Subdirs
    /\ d_population \in UNION {[1..n -> FitnessValues] : n \in 0..MaxDump}
    /\ dirs \in {{}, {OutputPath}, {OutputPath, Join(OutputPath, "check1")}}
    /\ files = {}
    /\ manifest = NoManifest
    /\ basepath = <<>>
    /\ results = <<>>
    /\ d_i = 0
    /\ d_pc = "start"
    /\ d_err = "none"
    /\ mkdir_errno = "none"
    /\ raced = FALSE
    /\ writes = <<>>

(* another writer makes the subdirectory before line 178 is reached *)
OtherWriter ==
    /\ d_pc = "start"
    /\ subdir # "None"
    /\ OutputPath \in dirs
    /\ Join(OutputPath, subdir) \notin dirs
    /\ dirs' = dirs \cup {Join(OutputPath, subdir)}
    /\ raced' = TRUE
    /\ UNCHANGED <<subdir, d_population, files, manifest, basepath, results,
                   d_i, d_pc, d_err, mkdir_errno, writes>>
    /\ UNCHANGED <<driverVars, progVars, batchVars>>

(* mutant: os.mkdir is called outside the try, and its error leaves the    *)
(* function                                                                *)
Resolve_NoTry ==
    /\ d_pc = "start"
    /\ IF subdir = "None"
       THEN /\ basepath' = OutputPath
            /\ d_pc' = "write"
            /\ UNCHANGED <<dirs, mkdir_errno, d_err>>
       ELSE /\ basepath' = Join(OutputPath, subdir)
            /\ IF basepath' \in dirs
               THEN /\ mkdir_errno' = "EEXIST"
                    /\ d_pc' = "raised"
                    /\ d_err' = "mkdir"
                    /\ UNCHANGED dirs
               ELSE IF Parent(basepath') \notin dirs
               THEN /\ mkdir_errno' = "ENOENT"
                    /\ d_pc' = "raised"
                    /\ d_err' = "mkdir"
                    /\ UNCHANGED dirs
               ELSE /\ mkdir_errno' = "ok"
                    /\ dirs' = dirs \cup {basepath'}
                    /\ d_pc' = "write"
                    /\ UNCHANGED d_err
    /\ UNCHANGED <<subdir, d_population, files, manifest, results, d_i, raced,
                   writes>>
    /\ UNCHANGED <<driverVars, progVars, batchVars>>

(* lines 174-181: basepath is cfg.output.path or, with a subdir, the       *)
(* joined path, which os.mkdir makes: mkdir fails when the directory       *)
(* exists (EEXIST) and when its parent does not (ENOENT), and either       *)
(* OSError is passed over.                                                 *)
Resolve ==
    /\ d_pc = "start"
    /\ IF subdir = "None"
       THEN /\ basepath' = OutputPath
            /\ UNCHANGED <<dirs, mkdir_errno>>
       ELSE /\ basepath' = Join(OutputPath, subdir)
            /\ IF basepath' \in dirs
               THEN /\ mkdir_errno' = "EEXIST"
                    /\ UNCHANGED dirs
               ELSE IF Parent(basepath') \notin dirs
               THEN /\ mkdir_errno' = "ENOENT"
                    /\ UNCHANGED dirs
               ELSE /\ mkdir_errno' = "ok"
                    /\ dirs' = dirs \cup {basepath'}
    /\ d_pc' = "write"
    /\ UNCHANGED <<subdir, d_population, files, manifest, results, d_i, d_err,
                   raced, writes>>
    /\ UNCHANGED <<driverVars, progVars, batchVars>>

(* lines 182-184: the next individual writes its artifact and the file     *)
(* name is entered in the results with the fitness.  The write raises      *)
(* when the directory does not exist, and may raise for a reason of its    *)
(* own; the error leaves dump_population.                                  *)
WriteInd ==
    /\ d_pc = "write"
    /\ d_i < Len(d_population)
    /\ LET e == Enumerate(d_population)[d_i + 1]
           filename == Write(e[1], basepath)
       IN  /\ writes' = Append(writes, <<e[1], basepath>>)
           /\ \/ /\ basepath \in dirs
                 /\ files' = files \cup {filename}
                 /\ results' = DictPut(results, Basename(filename), Floats(e[2]))
                 /\ d_i' = d_i + 1
                 /\ UNCHANGED <<d_pc, d_err>>
              \/ /\ d_pc' = "raised"
                 /\ d_err' = "write"
                 /\ UNCHANGED <<files, results, d_i>>
    /\ UNCHANGED <<subdir, d_population, dirs, manifest, basepath,
                   mkdir_errno, raced>>
    /\ UNCHANGED <<driverVars, progVars, batchVars>>

(* lines 185-188: the manifest is opened in basepath and the results are   *)
(* dumped into it; open raises when the directory does not exist.          *)
WriteManifest ==
    /\ d_pc = "write"
    /\ d_i = Len(d_population)
    /\ \/ /\ basepath \in dirs
          /\ manifest' = [path |-> Join(basepath, "gaudi-output"),
                          results |-> results, written |-> TRUE]
          /\ d_pc' = "done"
          /\ UNCHANGED d_err
       \/ /\ d_pc' = "raised"
          /\ d_err' = "manifest"
          /\ UNCHANGED manifest
    /\ UNCHANGED <<subdir, d_population, dirs, files, basepath, results, d_i,
                   mkdir_errno, raced, writes>>
    /\ UNCHANGED <<driverVars, progVars, batchVars>>

NextDump ==
    \/ OtherWriter
    \/ Resolve
    \/ WriteInd
    \/ WriteManifest

SpecDump == InitDump /\ [][NextDump]_vars

-----------------------------------------------------------------------------
(* One batch of evaluations, lines 91-94 and 122-125, with a toolbox.map   *)
(* that hands the calls of toolbox.evaluate to parallel workers.  The      *)
(* calls complete in any order; map returns their results in the order of  *)
(* its inputs.  An individual is its position in the batch.                *)

Genomes == {1, 2}

(* toolbox.evaluate(ind): the fitness values of a genome *)
EvaluateGenome(g) == <<g + 10>>

(* ind.fitness.valid: the values are not empty *)
Valid(values) == Len(values) # 0

InitBatch ==
    /\ DriverIdle
    /\ ProgIdle
    /\ DumpIdle
    /\ \E n \in 1..MaxBatch :
          /\ b_genome \in [1..n -> Genomes]
          /\ b_values \in [1..n -> {<<>>} \cup {EvaluateGenome(g) : g \in Genomes}]
    /\ \A i \in 1..Len(b_genome) :
          Valid(b_values[i]) => b_values[i] = EvaluateGenome(b_genome[i])
    /\ b_invalid_ind = <<>>
    /\ running = {}
    /\ computed = <<>>
    /\ completed = <<>>
    /\ fitnesses = <<>>
    /\ b_pc = "filter"

(* lines 91-92 (122-123): the individuals without a valid fitness are      *)
(* listed and toolbox.map starts one call of toolbox.evaluate for each     *)
Submit ==
    /\ b_pc = "filter"
    /\ b_invalid_ind' = SelectSeq([i \in 1..Len(b_genome) |-> i],
                                  LAMBDA i : ~Valid(b_values[i]))
    /\ running' = 1..Len(b_invalid_ind')
    /\ b_pc' = "map"
    /\ UNCHANGED <<b_genome, b_values, computed, completed, fitnesses>>
    /\ UNCHANGED <<driverVars, progVars, dumpVars>>

(* a worker completes the k-th call, whichever it is *)
Complete(k) ==
    /\ b_pc = "map"
    /\ k \in running
    /\ running' = running \ {k}
    /\ computed' = DictPut(computed, k, EvaluateGenome(b_genome[b_invalid_ind[k]]))
    /\ completed' = Append(completed, k)
    /\ UNCHANGED <<b_genome, b_values, b_invalid_ind, fitnesses, b_pc>>
    /\ UNCHANGED <<driverVars, progVars, dumpVars>>

(* toolbox.map returns: the results, in the order of its inputs *)
MapReturn ==
    /\ b_pc = "map"
    /\ running = {}
    /\ fitnesses' = [k \in 1..Len(b_invalid_ind) |-> computed[k]]
    /\ b_pc' = "zip"
    /\ UNCHANGED <<b_genome, b_values, b_invalid_ind, running, computed,
                   completed>>
    /\ UNCHANGED <<driverVars, progVars, dumpVars>>

(* mutant: the results are paired with the whole batch, not with           *)
(* invalid_ind                                                             *)
Assign_Mut ==
    /\ b_pc = "zip"
    /\ b_values' = [i \in 1..Len(b_values) |->
                        IF i <= Len(fitnesses) THEN fitnesses[i]
                                               ELSE b_values[i]]
    /\ b_pc' = "assigned"
    /\ UNCHANGED <<b_genome, b_invalid_ind, running, computed, completed,
                   fitnesses>>
    /\ UNCHANGED <<driverVars, progVars, dumpVars>>

(* lines 93-94 (124-125): for ind, fit in zip(invalid_ind, fitnesses):     *)
(* ind.fitness.values = fit                                                *)
Assign ==
    /\ b_pc = "zip"
    /\ b_values' = [i \in 1..Len(b_values) |->
                        IF \E k \in 1..Len(fitnesses) :
                               k <= Len(b_invalid_ind) /\ b_invalid_ind[k] = i
                        THEN fitnesses[CHOOSE k \in 1..Len(fitnesses) :
                                           k <= Len(b_invalid_ind)
                                           /\ b_invalid_ind[k] = i]
                        ELSE b_values[i]]
    /\ b_pc' = "assigned"
    /\ UNCHANGED <<b_genome, b_invalid_ind, running, computed, completed,
                   fitnesses>>
    /\ UNCHANGED <<driverVars, progVars, dumpVars>>

NextBatch ==
    \/ Submit
    \/ \E k \in 1..MaxBatch : Complete(k)
    \/ MapReturn
    \/ Assign

SpecBatch == InitBatch /\ [][NextBatch]_vars

-----------------------------------------------------------------------------
(* Properties *)

(* the log holds n records, of generations 0, 1, ..., n-1 in that order *)
LogHasGens(n) ==
    /\ Len(logbook) = n
    /\ \A i \in 1..Len(logbook) : logbook[i].gen = i - 1

(* some generation g >= 1 was completed: its body ran to its end *)
GenerationCompleted == endgen >= 1

(* the answer is neither y nor yes, whatever the case of its letters *)
Declined(a) ==
    /\ a \notin { <<"y">>, <<"Y">> }
    /\ \/ Len(a) # 3
       \/ a[1] \notin {"y", "Y"}
       \/ a[2] \notin {"e", "E"}
       \/ a[3] \notin {"s", "S"}

(* C1, as stated: with a select that returns k individuals when asked for  *)
(* k, the population holds mu individuals after every completed            *)
(* generation g >= 1, and the population the driver returns holds mu       *)
(* individuals.                                                            *)
C1_Original ==
    ValidConfig(cfg) =>
        /\ (pc = "else" \/ (pc = "loop" /\ gen >= 1)) => Len(population) = cfg.mu
        /\ pc = "returned" => Len(population_) = cfg.mu

(* C1, amended: the population holds mu individuals after every completed  *)
(* generation g >= 1, and the returned population holds mu individuals     *)
(* when at least one generation g >= 1 was completed; otherwise the        *)
(* driver returns the initial population, of the size it was given.        *)
C1_PopulationSize ==
    /\ (pc = "else" \/ (pc = "loop" /\ gen >= 1)) => Len(population) = cfg.mu
    /\ (pc = "returned" /\ GenerationCompleted) => Len(population_) = cfg.mu
    /\ (pc = "returned" /\ ~GenerationCompleted) => Len(population_) = cfg.n0

C1_Witness ==
    /\ pc = "returned"
    /\ GenerationCompleted
    /\ cfg.n0 # cfg.mu
    /\ cfg.mu # cfg.lambda_
    /\ Len(population_) = cfg.mu

(* C2: whenever toolbox.select is about to be called, every individual of  *)
(* the candidate pool population + offspring has a valid fitness.          *)
C2_PoolValid ==
    pc = "select" => Range(population \o offspring) \subseteq fitness_valid

C2_Witness ==
    /\ pc = "select"
    /\ gen = 2
    /\ Len(invalid_ind) >= 1
    /\ Len(invalid_ind) < Len(offspring)
    /\ Range(population) # 1..cfg.n0

(* C3: with mu >= 1, lambda_ >= 1, ngen >= 0 and cxpb + mutpb <= 1, when   *)
(* no collaborator raises and no cancellation arrives, the driver returns  *)
(* normally, with a log of ngen + 1 records of generations 0..ngen.        *)
C3_ReturnsFullLog ==
    (ValidConfig(cfg) /\ err \notin {"Exception", "KeyboardInterrupt", "AssertionError"})
        => /\ pc \notin {"except", "crashed", "exited"}
           /\ ~prompted
           /\ pc = "returned" => LogHasGens(cfg.ngen + 1)

(* C4: when evaluation raises in generation g >= 1 and the prompt is       *)
(* answered yes, the driver returns the population as generation g-1 left  *)
(* it and a log of g records, of generations 0..g-1.                       *)
C4_EvaluationFailure ==
    (pc = "returned" /\ failStage = "evaluation" /\ gen >= 1)
        => /\ population_ = endpop
           /\ LogHasGens(gen)

C4_Witness ==
    /\ pc = "returned"
    /\ failStage = "evaluation"
    /\ gen = 2
    /\ population_ # [i \in 1..cfg.n0 |-> i]
    /\ Len(logbook) = 2

(* C5: after a confirmed interruption, whatever the stage it arose in,     *)
(* unexpress() was attempted on every individual of the population the     *)
(* driver returns (here for the interruptions that are not the division   *)
(* by zero of the statistics).                                             *)
C5_RevertsReturned ==
    (ValidConfig(cfg) /\ pc = "returned" /\ prompted
                      /\ err # "ZeroDivisionError")
        => Range(population_) \subseteq reverted

(* C6: when the confirmation is declined, the run ends with the cancelled  *)
(* outcome: nothing is returned, no individual is reverted and no          *)
(* checkpoint is written for the interrupted generation or later.          *)
C6_Declined ==
    (prompted /\ Declined(answer))
        => /\ pc = "exited"
           /\ reverted = {}
           /\ checkpoint.gen < gen

C6_Witness ==
    /\ pc = "exited"
    /\ answer = <<>>
    /\ gen = 2
    /\ checkpoint.gen = 1

(* C7, as stated: an error raised by variation, evaluation or selection    *)
(* reaches the interruption handler wherever the driver calls them,        *)
(* generation 0 included.                                                  *)
C7_Original ==
    (ValidConfig(cfg) /\ err # "none"
                      /\ failStage \in {"variation", "evaluation", "selection"})
        => (pc = "except" \/ prompted)

(* C7, amended: an error raised by variation, evaluation or selection in   *)
(* a generation g >= 1 reaches the interruption handler; an error raised   *)
(* by the evaluation of the initial population leaves the driver without   *)
(* the prompt being shown.                                                 *)
C7_ErrorsReachHandler ==
    (failStage \in {"variation", "evaluation", "selection"} /\ err # "none")
        => IF gen >= 1
           THEN pc = "except" \/ (prompted /\ pc \in {"returned", "exited"})
           ELSE pc = "crashed" /\ ~prompted

C7_Witness ==
    /\ failStage = "selection"
    /\ gen = 1
    /\ prompted
    /\ pc = "returned"

(* C8: an invalid configuration is rejected before anything is done: no    *)
(* individual is evaluated, the archive is not updated, no record is       *)
(* logged and the prompt is not shown.                                     *)
C8_RejectsInvalidConfig ==
    ~ValidConfig(cfg)
        => /\ fitness_valid = 1..cfg.nvalid
           /\ halloffame = {}
           /\ logbook = <<>>
           /\ ~prompted
           /\ pc # "returned"

(* C9: a scheduled checkpoint whose write raises does not abort the run:   *)
(* population, copy and log are as the generation left them, the prompt    *)
(* is not shown, and the driver is at the head of the loop (or has         *)
(* returned when the generation was the last).  A KeyboardInterrupt that   *)
(* arrives during the checkpoint is not a failure of a write.              *)
C9_CheckpointFailure ==
    (gen >= 1 /\ checkpoint.gen = gen /\ ~checkpoint.complete
              /\ err # "KeyboardInterrupt")
        => /\ pc \in {"loop", "returned"}
           /\ pc = "returned" => gen = cfg.ngen
           /\ err = "none"
           /\ ~prompted
           /\ population = endpop
           /\ population_ = endpop
           /\ LogHasGens(gen + 1)

C9_Witness ==
    /\ pc = "eval"
    /\ gen = 2
    /\ checkpoint = [gen |-> 1, complete |-> FALSE]
    /\ err = "none"

(* C10: when the elapsed time measured for a generation is zero, or the    *)
(* throughput is zero, the driver does not fail with a division by zero.   *)
C10_NoDivisionByZero ==
    (ValidConfig(cfg) /\ (elapsed = 0 \/ Len(invalid_ind) = 0))
        => err # "ZeroDivisionError"

(* C11: in generation 0 and in every generation g >= 1 the individuals     *)
(* submitted to evaluation are exactly those of the batch (the initial     *)
(* population, the offspring) whose fitness is invalid at that moment,     *)
(* each once and none with a valid fitness; no other individual gets a     *)
(* fitness; and the nevals of the record of the generation is the number   *)
(* submitted, so that reproduced offspring are not counted.                *)
C11_Step ==
    /\ pc \in {"eval0", "eval"}
        => LET batch == IF pc = "eval0" THEN population ELSE offspring
               submitted == Range(invalid_ind')
           IN  /\ submitted = {x \in Range(batch) : x \notin fitness_valid}
               /\ Len(invalid_ind') = Cardinality(submitted)
               /\ fitness_valid' \subseteq fitness_valid \cup submitted
    /\ pc \notin {"eval0", "eval"}
        => invalid_ind' = invalid_ind /\ fitness_valid' = fitness_valid
    /\ Len(logbook') > Len(logbook)
        => /\ logbook'[Len(logbook')].gen = gen
           /\ logbook'[Len(logbook')].nevals = Cardinality(Range(invalid_ind))

C11_EvaluatesInvalidOnly == [][C11_Step]_vars

C11_Witness ==
    /\ pc = "else"
    /\ gen = 2
    /\ \E i \in 1..Len(offspring) : offspring[i] \notin Range(invalid_ind)
    /\ logbook[Len(logbook)].gen = 2
    /\ logbook[Len(logbook)].nevals = 1
    /\ Len(offspring) = 2

(* the recorded progress is 100*(g+1)/(ngen+1) to the nearest hundredth *)
ProgressOfRecord ==
    p_gen >= 0
        => /\ 2 * (progress * (p_ngen + 1) - 10000 * (p_gen + 1)) <= p_ngen + 1
           /\ 2 * (10000 * (p_gen + 1) - progress * (p_ngen + 1)) <= p_ngen + 1

(* C12, as stated: the progress recorded for generation g is               *)
(* 100*(g+1)/(ngen+1) percent, it is strictly greater than the progress of *)
(* the record before, and it is 100% in the record of g = ngen and in no   *)
(* earlier record.                                                         *)
C12_Original ==
    /\ ProgressOfRecord
    /\ p_gen >= 1 => previous < progress
    /\ p_gen >= 0 => (progress = 10000 <=> p_gen = p_ngen)

(* C12, amended: the progress recorded for generation g is                 *)
(* 100*(g+1)/(ngen+1) percent rounded to two decimals; it never decreases  *)
(* from one record to the next and is 100.00% in the record of g = ngen;   *)
(* when ngen < 10000 it is strictly increasing and no earlier record       *)
(* shows 100.00%.                                                          *)
C12_Progress ==
    /\ ProgressOfRecord
    /\ p_gen >= 1 => previous <= progress
    /\ (p_gen >= 0 /\ p_gen = p_ngen) => progress = 10000
    /\ (p_gen >= 1 /\ p_ngen < 10000) => previous < progress
    /\ (p_gen >= 0 /\ p_ngen < 10000 /\ progress = 10000) => p_gen = p_ngen

C12_Witness ==
    /\ p_ngen = 9999
    /\ p_gen = p_ngen
    /\ progress = 10000
    /\ previous = 9999

(* C13: once dump_population has resolved its target directory, the        *)
(* directory exists before any artifact is written, with or without a      *)
(* subdir and whether or not the output path existed beforehand.           *)
C13_TargetExists ==
    d_pc \in {"write", "done"} => basepath \in dirs

(* C14: with a subdir that exists already, made beforehand or by another   *)
(* writer just before os.mkdir, the directory creation raises no error     *)
(* and the artifacts and the manifest are written into that directory.     *)
C14_ExistingSubdir ==
    (subdir # "None" /\ mkdir_errno = "EEXIST")
        => /\ d_err # "mkdir"
           /\ basepath = Join(OutputPath, subdir)
           /\ \A f \in files : f.dir = Join(OutputPath, subdir)
           /\ d_pc = "done"
                => /\ manifest.written
                   /\ Parent(manifest.path) = Join(OutputPath, subdir)
                   /\ Cardinality(files) = Len(d_population)

C14_Witness ==
    /\ d_pc = "done"
    /\ raced
    /\ mkdir_errno = "EEXIST"
    /\ Len(d_population) = 2
    /\ Cardinality(files) = 2

(* C15: dump_population of n individuals calls write(i, path) once for     *)
(* each individual, with its position i, and the manifest maps n file      *)
(* names, those of n distinct artifact files, each to the fitness values   *)
(* of the individual that wrote the file.                                  *)
C15_Manifest ==
    d_pc = "done"
        => LET n == Len(d_population)
           IN  /\ Len(writes) = n
               /\ \A k \in 1..n : writes[k] = <<k - 1, basepath>>
               /\ Cardinality(files) = n
               /\ Cardinality(DOMAIN manifest.results) = n
               /\ DOMAIN manifest.results = {f.base : f \in files}
               /\ \A k \in 1..n :
                     /\ [dir |-> basepath, base |-> k - 1] \in files
                     /\ manifest.results[k - 1] = d_population[k]

C15_Witness ==
    /\ d_pc = "done"
    /\ Len(d_population) = 2
    /\ d_population[1] # d_population[2]
    /\ Cardinality(DOMAIN manifest.results) = 2

(* C16: when the evaluations of a batch run on parallel workers and        *)
(* complete in any order, and map returns the results in the order of its  *)
(* inputs, every individual of the batch ends with the fitness computed    *)
(* from its own genome, whatever the order of completion.                  *)
C16_OwnFitness ==
    b_pc = "assigned"
        => \A i \in 1..Len(b_genome) : b_values[i] = EvaluateGenome(b_genome[i])

C16_Witness ==
    /\ b_pc = "assigned"
    /\ Len(b_genome) = 3
    /\ Valid(b_values[1])
    /\ b_invalid_ind = <<2, 3>>
    /\ b_genome[1] # b_genome[2]
    /\ b_genome[2] # b_genome[3]
    /\ completed = <<2, 1>>

(* C17: in every generation g >= 1 the stages run in the order variation,  *)
(* evaluation, archive update (with the offspring of that generation),     *)
(* selection, statistics, checkpoint; generation g+1 starts only when the  *)
(* last stage of generation g is over; and the archive has taken in the    *)
(* initial population before the record of generation 0 is written.        *)
C17_Step ==
    /\ gen' # gen
        => /\ gen' = gen + 1
           /\ pc = "loop" /\ pc' \in {"eval", "except"}
           /\ endgen = gen
           /\ logbook[Len(logbook)].gen = gen
           /\ gen >= 1 => population_ = population
    /\ offspring' # offspring => gen' = gen + 1
    /\ pc = "eval"
        => /\ pc' \in {"hof", "except"}
           /\ halloffame' = halloffame /\ population' = population
    /\ pc = "hof"
        => /\ pc' \in {"select", "except"}
           /\ Range(offspring) \subseteq fitness_valid
           /\ (pc' = "select" /\ cfg.hof)
                => halloffame' = halloffame \cup Range(offspring)
           /\ population' = population
    /\ pc = "select"
        => /\ pc' \in {"record", "except"}
           /\ cfg.hof => Range(offspring) \subseteq halloffame
           /\ Len(logbook) = gen /\ logbook' = logbook
    /\ pc = "record"
        => /\ pc' \in {"else", "except"}
           /\ checkpoint.gen < gen /\ checkpoint' = checkpoint
    /\ pc = "else"
        => /\ pc' \in {"loop", "crashed"}
           /\ Len(logbook) = gen + 1 /\ logbook[gen + 1].gen = gen
    /\ checkpoint' # checkpoint => pc = "else" /\ checkpoint'.gen = gen
    /\ (Len(logbook) = 0 /\ Len(logbook') = 1 /\ cfg.hof)
        => Range(population) \subseteq halloffame

C17_StageOrder == [][C17_Step]_vars

C17_Witness ==
    /\ pc = "loop"
    /\ gen = 2
    /\ cfg.hof
    /\ checkpoint.gen = 2
    /\ Len(logbook) = 3
    /\ \E x \in halloffame : x > cfg.n0 + cfg.lambda_
    /\ population_ = population

(* C18: a checkpoint of the archive is attempted at generation g exactly   *)
(* when g >= 1, the body of generation g has completed, the cadence is     *)
(* not zero, g is a multiple of it and the archive is not empty; it goes   *)
(* to the subdirectory named after g.  None is attempted for generation    *)
(* 0, for an interrupted generation or with a falsy cadence.               *)
C18_Step ==
    /\ pc = "else"
        => ((checkpoint' # checkpoint)
              <=> /\ gen >= 1
                  /\ cfg.check_every # 0
                  /\ gen % cfg.check_every = 0
                  /\ halloffame # {})
    /\ checkpoint' # checkpoint
        => /\ pc = "else"
           /\ gen >= 1
           /\ endgen = gen
           /\ err = "none"
           /\ cfg.check_every # 0
           /\ checkpoint'.gen = gen

C18_CheckpointCadence == [][C18_Step]_vars

C18_Witness ==
    /\ pc = "loop"
    /\ gen = 2
    /\ cfg.check_every = 2
    /\ checkpoint = [gen |-> 2, complete |-> TRUE]
    /\ Len(logbook) = 3

(* C19: at every return, after the last generation or after a confirmed    *)
(* interruption at any point of the body of a generation, the log holds    *)
(* one record for each generation up to the one at whose end the returned  *)
(* population was taken, and none after it.                                *)
C19_LogMatchesSnapshot ==
    (ValidConfig(cfg) /\ pc = "returned")
        => /\ population_ = endpop
           /\ LogHasGens(endgen + 1)

(* C20: when unexpress() raises on an individual during the revert loop    *)
(* of a confirmed interruption, the error is absorbed: unexpress() is      *)
(* still attempted on every individual of the loop and the driver          *)
(* returns.                                                                *)
C20_RevertErrorAbsorbed ==
    (prompted /\ ~Declined(answer))
        => /\ pc = "returned"
           /\ revert_errors \subseteq Range(population)
           /\ Range(population) \subseteq reverted

C20_Witness ==
    /\ pc = "returned"
    /\ prompted
    /\ Len(population) = 2
    /\ population[1] # population[2]
    /\ revert_errors = {population[1]}
    /\ population[2] \in reverted
    /\ Len(logbook) = 2

(* C21: once the except clause has been entered in generation g, the       *)
(* driver runs no variation, evaluation, archive update, selection or      *)
(* statistics again and writes no checkpoint: the handler ends in the      *)
(* return or in the exit, whatever the answer, and generations g+1..ngen   *)
(* are not executed.                                                       *)
C21_Step ==
    (pc = "except" \/ prompted)
        => /\ pc = "except" => pc' \in {"returned", "exited"}
           /\ pc # "except" => pc' = pc
           /\ gen' = gen
           /\ offspring' = offspring
           /\ invalid_ind' = invalid_ind
           /\ fitness_valid' = fitness_valid
           /\ halloffame' = halloffame
           /\ population' = population
           /\ population_' = population_
           /\ logbook' = logbook
           /\ checkpoint' = checkpoint

C21_HandlerStopsTheLoop == [][C21_Step]_vars

C21_Witness ==
    /\ pc = "returned"
    /\ prompted
    /\ gen = 1
    /\ cfg.ngen = 2
    /\ cfg.hof
    /\ cfg.check_every = 1
    /\ checkpoint = NoCheckpoint
    /\ Len(logbook) = 1

=============================================================================
